---------------------------- MODULE Spec2Model ----------------------------
(***************************************************************************)
(* A model of nuklear_cairo.h: the process-wide font/face cache            *)
(* (nk_cairo_ttf, nk_cairo_text_width) and the command renderer            *)
(* (nk_cairo_render) with the drawing primitives it dispatches to.         *)
(*                                                                         *)
(* The two libraries the header calls are modelled by what the calls do to *)
(* the objects the header holds: a cairo context is a record of its clip   *)
(* region, current path and selected font; FreeType is the set of files it *)
(* can load.  assert() is modelled as the header is written: a failing     *)
(* assertion terminates the process (aborted).                             *)
(***************************************************************************)
EXTENDS Integers, Sequences, FiniteSets

VARIABLES
    nk_cairo_face,      \* int nk_cairo_face: number of face slots handed out
    nk_cairo_faces,     \* nk_cairo_face_t nk_cairo_faces[MAXFONTS]
    nk_cairo_font,      \* int nk_cairo_font: number of sized-font slots handed out
    nk_cairo_fonts,     \* nk_cairo_font_t nk_cairo_fonts[MAXFONTS]
    nk_cairo,           \* the scratch cairo_t used for font extents
    aborted,            \* an assertion has failed: the process is gone
    ret,                \* what the last nk_cairo_ttf returned (index of the entry)
    width,              \* what the last nk_cairo_text_width returned
    handleOf,           \* the caller's record: the handle each (path, size) first returned
    ctx,                \* the toolkit's command list (struct nk_context)
    pc,                 \* where nk_cairo_render is: "idle", "foreach", "returned"
    cmd,                \* index of the command nk_foreach is at
    fb,                 \* the frame target of the running render call: <<w, h>>
    surface,            \* reference count of the per-frame cairo_surface_t
    cairo,              \* the per-frame cairo_t, NoContext when there is none
    calls,              \* the drawing and releasing calls of this frame's render call
    stderr              \* the lines this frame's render call wrote to stderr

vars == <<nk_cairo_face, nk_cairo_faces, nk_cairo_font, nk_cairo_fonts, nk_cairo,
          aborted, ret, width, handleOf, ctx, pc, cmd, fb, surface, cairo, calls,
          stderr>>

fontVars == <<nk_cairo_face, nk_cairo_faces, nk_cairo_font, nk_cairo_fonts>>
renderVars == <<ctx, pc, cmd, fb, surface, cairo, calls, stderr>>

---------------------------------------------------------------------------
(* Program constants and the bounds of the model.                          *)

MAXFONTS == 16

\* "int i, face = -1, font = -1": the value of a search that found nothing.
NotFound == -1

\* Font files FreeType can load are numbered 1..NPaths; one more than the
\* face table holds, so that a 17th distinct face can be asked for.
NPaths == MAXFONTS + 1
\* A path FT_New_Face fails on.
BadPath == NPaths + 1
\* Pixel sizes the host asks for are 1..NSizes.
NSizes == 2
\* The texts measured are the strings 1 2 1 2 ... of at most MaxText bytes; a
\* call measures the first len bytes of one of them.
MaxText == 3

Slots == 0 .. MAXFONTS - 1

RECURSIVE SeqsUpTo(_, _)
SeqsUpTo(S, n) ==
    IF n = 0 THEN {<<>>}
    ELSE LET shorter == SeqsUpTo(S, n - 1)
         IN  shorter \cup {Append(s, e) : s \in {t \in shorter : Len(t) = n - 1}, e \in S}

Sample(n) == IF n = 0 THEN <<>> ELSE [i \in 1 .. n |-> IF i % 2 = 1 THEN 1 ELSE 2]
Texts == {Sample(n) : n \in 0 .. MaxText}

---------------------------------------------------------------------------
(* FreeType and cairo, as far as the font cache sees them.                 *)

\* FT_New_Face(nk_cairo_ft, ttf, 0, &ft) returns 0 (no error) for a loadable file.
FT_New_Face(ttf) == IF ttf \in 1 .. NPaths THEN 0 ELSE 1

\* The FT_Face loaded from a file, and the cairo_font_face_t wrapping an FT_Face.
FT_FaceOf(ttf) == [file |-> ttf]
cairo_ft_font_face_create_for_ft_face(ft) == [ft |-> ft]

\* Zeroed storage: null pointers are 0.
NoFace == [ft |-> [file |-> 0]]
EmptyFace == [ttf |-> 0, ft |-> [file |-> 0], ca |-> NoFace]
EmptyFont == [face |-> 0, size |-> 0, height |-> 0, userdata |-> 0, width |-> FALSE]

\* cairo_font_extents(cr, &extents): extents.height of the selected face and size.
cairo_font_extents_height(cr) == 3 * cr.font_size + cr.font_face.ft.file

\* Per glyph metrics of a face at a size: advance, left bearing and ink width.
GlyphAdvance(ca, size, c) == size * (c + 1) + ca.ft.file
GlyphBearing(ca, size, c) == IF c = 1 THEN 0 - 1 ELSE 1
GlyphInk(ca, size, c) == size * c + 2

RECURSIVE SumAdvance(_, _, _)
SumAdvance(ca, size, s) ==
    IF s = <<>> THEN 0
    ELSE GlyphAdvance(ca, size, Head(s)) + SumAdvance(ca, size, Tail(s))

\* cairo_text_extents(cr, utf8, &extents) with the face and size selected on cr.
cairo_text_extents(cr, s) ==
    IF s = <<>> THEN [width |-> 0, x_bearing |-> 0, x_advance |-> 0]
    ELSE LET ca == cr.font_face
             size == cr.font_size
             last == s[Len(s)]
             adv == SumAdvance(ca, size, s)
         IN  [x_bearing |-> GlyphBearing(ca, size, Head(s)),
              x_advance |-> adv,
              width |-> adv - GlyphAdvance(ca, size, last) + GlyphInk(ca, size, last)
                            - GlyphBearing(ca, size, Head(s))]

cairo_set_font_face(cr, ca) == [cr EXCEPT !.font_face = ca]
cairo_set_font_size(cr, size) == [cr EXCEPT !.font_size = size]

NK_MAX(a, b) == IF a < b THEN b ELSE a


---------------------------------------------------------------------------
(* The state after nk_cairo_init: static storage is zeroed, the scratch    *)
(* context is a fresh cairo_t on a 1x1 surface.                            *)

NoHandle == NotFound
NoContext == [live |-> FALSE]

Pixels(w, h) == (0 .. w - 1) \X (0 .. h - 1)

\* cairo_create(surface) on a w x h image surface: nothing is clipped, the
\* path is empty, there is no current point, no font has been selected.
Identity == [sx |-> <<1, 1>>, sy |-> <<1, 1>>]
cairo_create(w, h) ==
    [live |-> TRUE, clip |-> Pixels(w, h), extent |-> Pixels(w, h), path |-> <<>>,
     cur |-> FALSE, pt |-> <<0, 0>>, font_face |-> NoFace, font_size |-> 0,
     matrix |-> Identity, source |-> <<>>]

FontRequestsAll == (1 .. BadPath) \X (1 .. NSizes)

nk_cairo_init ==
    /\ nk_cairo_face = 0
    /\ nk_cairo_faces = [i \in Slots |-> EmptyFace]
    /\ nk_cairo_font = 0
    /\ nk_cairo_fonts = [i \in Slots |-> EmptyFont]
    /\ nk_cairo = cairo_create(1, 1)
    /\ aborted = FALSE
    /\ ret = NoHandle
    /\ width = 0
    /\ handleOf = [r \in FontRequestsAll |-> NoHandle]
    /\ ctx = <<>>
    /\ pc = "idle"
    /\ cmd = 0
    /\ fb = <<0, 0>>
    /\ surface = 0
    /\ cairo = NoContext
    /\ calls = <<>>
    /\ stderr = <<>>

Init == nk_cairo_init

---------------------------------------------------------------------------
(* nk_cairo_ttf                                                            *)

MinOf(S) == CHOOSE m \in S : \A n \in S : m <= n

\* "is the font face is already loaded?": the first i < nk_cairo_face with
\* strcmp(ttf, nk_cairo_faces[i].ttf) == 0.  The table keeps the caller's
\* pointer; the strings passed are taken to stay what they were (string
\* constants, as in the header's example).
FindFace(ttf) ==
    LET hits == {i \in Slots : i < nk_cairo_face /\ nk_cairo_faces[i].ttf = ttf}
    IN  IF hits = {} THEN NotFound ELSE MinOf(hits)

\* "is the font size is already created?": the first i < nk_cairo_font with
\* the same face and size.
FindFontNever(face, ttf_size) == NotFound
FindFont(face, ttf_size) ==
    LET hits == {i \in Slots : /\ i < nk_cairo_font
                               /\ nk_cairo_fonts[i].face = face
                               /\ nk_cairo_fonts[i].size = ttf_size}
    IN  IF hits = {} THEN NotFound ELSE MinOf(hits)

\* assert(face < MAXFONTS) and assert(font < MAXFONTS)
FaceFits(face) == face < MAXFONTS
FontFitsOffByOne(font) == font <= MAXFONTS
FontFitsUnchecked(font) == TRUE
FontFits(font) == font < MAXFONTS

nk_cairo_ttf(ttf, ttf_size) ==
    /\ ~aborted
    /\ pc = "idle"
    /\ LET found == FindFace(ttf)
           newFace == found < 0
           face == IF newFace THEN nk_cairo_face ELSE found
           \* face = nk_cairo_face++; assert(face < MAXFONTS);
           faceFull == newFace /\ ~FaceFits(face)
           \* nk_cairo_faces[face].ttf = ttf; assert(0 == FT_New_Face(...));
           loadFail == newFace /\ ~faceFull /\ FT_New_Face(ttf) # 0
           ft == FT_FaceOf(ttf)
           faces1 ==
               IF ~newFace \/ faceFull THEN nk_cairo_faces
               ELSE IF loadFail
                    THEN [nk_cairo_faces EXCEPT ![face].ttf = ttf]
                    ELSE [nk_cairo_faces EXCEPT ![face] =
                            [ttf |-> ttf, ft |-> ft,
                             ca |-> cairo_ft_font_face_create_for_ft_face(ft)]]
           died1 == faceFull \/ loadFail
           fnd == FindFont(face, ttf_size)
           newFont == ~died1 /\ fnd < 0
           font == IF fnd < 0 THEN nk_cairo_font ELSE fnd
           \* font = nk_cairo_font++; assert(font < MAXFONTS);
           fontFull == newFont /\ ~FontFits(font)
           scratch == cairo_set_font_size(
                          cairo_set_font_face(nk_cairo, faces1[face].ca), ttf_size)
           entry == [face |-> face, size |-> ttf_size, userdata |-> font,
                     height |-> cairo_font_extents_height(scratch), width |-> TRUE]
           died == died1 \/ fontFull
       IN  /\ nk_cairo_face' = IF newFace THEN nk_cairo_face + 1 ELSE nk_cairo_face
           /\ nk_cairo_faces' = faces1
           /\ nk_cairo_font' = IF newFont THEN nk_cairo_font + 1 ELSE nk_cairo_font
           /\ nk_cairo_fonts' = IF newFont /\ ~fontFull
                                THEN [nk_cairo_fonts EXCEPT ![font] = entry]
                                ELSE nk_cairo_fonts
           /\ nk_cairo' = IF newFont /\ ~fontFull THEN scratch ELSE nk_cairo
           /\ aborted' = died
           \* return &nk_cairo_fonts[font].font, unless the process has died
           /\ ret' = IF died THEN NoHandle ELSE font
           /\ handleOf' = IF ~died /\ handleOf[<<ttf, ttf_size>>] = NoHandle
                          THEN [handleOf EXCEPT ![<<ttf, ttf_size>>] = font]
                          ELSE handleOf
    /\ UNCHANGED <<width, renderVars>>

---------------------------------------------------------------------------
(* nk_cairo_text_width, the width callback of every handle                 *)

\* cairo_set_font_face(nk_cairo, nk_cairo_faces[cfont->face].ca);
\* cairo_set_font_size(nk_cairo, cfont->size);
SelectFontStale(cr, cfont) == cr
SelectFont(cr, cfont) ==
    cairo_set_font_size(cairo_set_font_face(cr, nk_cairo_faces[cfont.face].ca),
                        cfont.size)

\* The value returned for the len bytes at text, measured on context cr.
TextWidthOn(cr, text, len) ==
    LET tmp == SubSeq(text, 1, len)
        extents == cairo_text_extents(cr, tmp)
    IN  NK_MAX(extents.width + extents.x_bearing, extents.x_advance)

nk_cairo_text_width(handle, text, len) ==
    /\ ~aborted
    /\ LET cfont == nk_cairo_fonts[handle]
           cr == SelectFont(nk_cairo, cfont)
       IN  /\ nk_cairo' = cr
           /\ width' = TextWidthOn(cr, text, len)
    /\ UNCHANGED <<fontVars, aborted, ret, handleOf, renderVars>>

\* The handles the toolkit holds are those nk_cairo_ttf has returned.
Handles == {h \in Slots : h < nk_cairo_font}

---------------------------------------------------------------------------
(* The font cache alone: the host asks for fonts until a table is full.    *)
(* File names are interchangeable, so the k-th distinct loadable file the  *)
(* host asks for is called k; every file is asked for at size 1 and the    *)
(* first one at every size.                                                *)

CacheRequests ==
    {r \in FontRequestsAll : /\ (r[1] <= nk_cairo_face + 1 \/ r[1] = BadPath)
                              /\ (r[2] = 1 \/ r[1] = 1)}

NextFonts == \E r \in CacheRequests : nk_cairo_ttf(r[1], r[2])

SpecFonts == Init /\ [][NextFonts]_vars

---------------------------------------------------------------------------
(* cairo, as far as the renderer sees it.  A path is a sequence of         *)
(* sub-paths, a sub-path its segments (the first a "move") and whether     *)
(* cairo_close_path has joined it back to its first point.  Angles are in  *)
(* degrees and multiples of 90.  Colour and line width do not bear on the  *)
(* path, the clip or the order of the calls, and are left out.             *)

Call(fn, a) == [fn |-> fn, a |-> a]

Move(p) == [k |-> "move", p |-> p]
Line(p) == [k |-> "line", p |-> p]
Arc(c, r, a1, a2) == [k |-> "arc", c |-> c, r |-> r, a1 |-> a1, a2 |-> a2]

CosDeg(a) ==
    LET m == (a + 720) % 360
    IN  IF m = 0 THEN 1 ELSE IF m = 180 THEN 0 - 1 ELSE 0
SinDeg(a) == CosDeg(a - 90)
ArcPoint(c, r, a) == <<c[1] + r * CosDeg(a), c[2] + r * SinDeg(a)>>

LastSub(cr) == cr.path[Len(cr.path)]
LoneMove(sub) == Len(sub.segs) = 1 /\ ~sub.closed

cairo_new_path(cr) == [cr EXCEPT !.path = <<>>, !.cur = FALSE]
cairo_new_sub_path(cr) == [cr EXCEPT !.cur = FALSE]

\* A move begins a sub-path; a sub-path that is only a move is replaced by it.
cairo_move_to(cr, p) ==
    LET kept == IF cr.path # <<>> /\ LoneMove(LastSub(cr))
                THEN SubSeq(cr.path, 1, Len(cr.path) - 1) ELSE cr.path
    IN  [cr EXCEPT !.path = Append(kept, [segs |-> <<Move(p)>>, closed |-> FALSE]),
                   !.cur = TRUE, !.pt = p]

AddSeg(cr, seg, to) ==
    IF LastSub(cr).closed
    THEN [cr EXCEPT !.path = Append(@, [segs |-> <<Move(cr.pt), seg>>, closed |-> FALSE]),
                    !.pt = to]
    ELSE [cr EXCEPT !.path[Len(cr.path)].segs = Append(@, seg), !.pt = to]

\* Without a current point cairo_line_to is cairo_move_to.
cairo_line_to(cr, p) == IF ~cr.cur THEN cairo_move_to(cr, p) ELSE AddSeg(cr, Line(p), p)

\* "If there is a current point, an initial line segment will be added to the
\* path to connect the current point to the beginning of the arc."
cairo_arc(cr, c, r, a1, a2) ==
    AddSeg(cairo_line_to(cr, ArcPoint(c, r, a1)), Arc(c, r, a1, a2), ArcPoint(c, r, a2))

\* Adds the segment back to the beginning of the current sub-path and closes
\* it; the current point is then that beginning.
cairo_close_path(cr) ==
    IF ~cr.cur THEN cr
    ELSE [cr EXCEPT !.path[Len(cr.path)].closed = TRUE,
                    !.pt = LastSub(cr).segs[1].p]

cairo_rectangle(cr, x, y, w, h) ==
    cairo_close_path(
        cairo_line_to(
            cairo_line_to(
                cairo_line_to(cairo_move_to(cr, <<x, y>>), <<x + w, y>>),
                <<x + w, y + h>>),
            <<x, y + h>>))

\* What a stroke or fill draws: the sub-paths that have a segment.
Visible(path) == SelectSeq(path, LAMBDA sub : ~LoneMove(sub))

\* The pixels inside a path; exact for the axis-aligned rectangles that
\* nk_cairo_scissor builds, the only paths that are clipped to.
PointsOf(sub) == {sub.segs[i].p : i \in 1 .. Len(sub.segs)}
MinC(sub, d) == MinOf({p[d] : p \in PointsOf(sub)})
MaxC(sub, d) == 0 - MinOf({0 - p[d] : p \in PointsOf(sub)})
Inside(path, extent) ==
    {px \in extent : \E i \in 1 .. Len(path) :
        /\ MinC(path[i], 1) <= px[1] /\ px[1] + 1 <= MaxC(path[i], 1)
        /\ MinC(path[i], 2) <= px[2] /\ px[2] + 1 <= MaxC(path[i], 2)}

cairo_reset_clip(cr) == [cr EXCEPT !.clip = cr.extent]
cairo_clip(cr) ==
    cairo_new_path([cr EXCEPT !.clip = cr.clip \cap Inside(cr.path, cr.extent)])

\* cairo_scale multiplies the scale of the matrix; <<n, d>> is the ratio n/d.
cairo_scale(cr, sx, sy) ==
    [cr EXCEPT !.matrix = [sx |-> <<@.sx[1] * sx[1], @.sx[2] * sx[2]>>,
                           sy |-> <<@.sy[1] * sy[1], @.sy[2] * sy[2]>>]]
cairo_set_matrix(cr, m) == [cr EXCEPT !.matrix = m]

\* cairo_font_extents(cr, &extents): extents.ascent of the selected face and size.
cairo_font_extents_ascent(cr) == 2 * cr.font_size

---------------------------------------------------------------------------
(* The renderer's view of one render call: the per-frame context, the      *)
(* reference count of the frame surface, the toolkit's command list, the   *)
(* calls that drew or released something and the lines written to stderr.  *)

\* What a logged call saw: where nk_foreach was, the path drawn, the clip.
Logged(g, fn, path, what) ==
    Append(g.calls, [fn |-> fn, at |-> g.at, path |-> path,
                     clip |-> IF g.cr.live THEN g.cr.clip ELSE {}, what |-> what])

Drawn(g, fn) ==
    [g EXCEPT !.calls = Logged(g, fn, Visible(g.cr.path), <<>>),
              !.cr = cairo_new_path(g.cr)]

\* cairo_show_text draws at the current point and moves it past the text.
ShowText(g, s) ==
    [g EXCEPT !.calls = Logged(g, "cairo_show_text", <<>>, <<g.cr.pt, s, g.cr.font_face, g.cr.font_size>>),
              !.cr = cairo_move_to(g.cr, <<g.cr.pt[1] + SumAdvance(g.cr.font_face, g.cr.font_size, s),
                                          g.cr.pt[2]>>)]

\* cairo_destroy drops the context and, with it, its reference to the surface.
Destroy(g) ==
    [g EXCEPT !.calls = Logged(g, "cairo_destroy", <<>>, <<>>),
              !.cr = NoContext,
              !.surface = g.surface - 1]

Exec(g, c) ==
    CASE c.fn = "cairo_reset_clip" -> [g EXCEPT !.cr = cairo_reset_clip(g.cr)]
      [] c.fn = "cairo_new_path" -> [g EXCEPT !.cr = cairo_new_path(g.cr)]
      [] c.fn = "cairo_new_sub_path" -> [g EXCEPT !.cr = cairo_new_sub_path(g.cr)]
      [] c.fn = "cairo_move_to" -> [g EXCEPT !.cr = cairo_move_to(g.cr, <<c.a[1], c.a[2]>>)]
      [] c.fn = "cairo_line_to" -> [g EXCEPT !.cr = cairo_line_to(g.cr, <<c.a[1], c.a[2]>>)]
      [] c.fn = "cairo_arc" ->
            [g EXCEPT !.cr = cairo_arc(g.cr, <<c.a[1], c.a[2]>>, c.a[3], c.a[4], c.a[5])]
      [] c.fn = "cairo_close_path" -> [g EXCEPT !.cr = cairo_close_path(g.cr)]
      [] c.fn = "cairo_rectangle" ->
            [g EXCEPT !.cr = cairo_rectangle(g.cr, c.a[1], c.a[2], c.a[3], c.a[4])]
      [] c.fn = "cairo_clip" -> [g EXCEPT !.cr = cairo_clip(g.cr)]
      [] c.fn = "cairo_stroke" -> Drawn(g, "cairo_stroke")
      [] c.fn = "cairo_fill" -> Drawn(g, "cairo_fill")
      [] c.fn = "cairo_paint" ->
            [g EXCEPT !.calls = Logged(g, "cairo_paint", <<>>, <<g.cr.matrix, g.cr.source>>)]
      [] c.fn = "cairo_show_text" -> ShowText(g, c.a[1])
      [] c.fn = "cairo_set_font_face" -> [g EXCEPT !.cr = cairo_set_font_face(g.cr, c.a[1])]
      [] c.fn = "cairo_set_font_size" -> [g EXCEPT !.cr = cairo_set_font_size(g.cr, c.a[1])]
      [] c.fn = "cairo_scale" -> [g EXCEPT !.cr = cairo_scale(g.cr, c.a[1], c.a[2])]
      [] c.fn = "cairo_set_matrix" -> [g EXCEPT !.cr = cairo_set_matrix(g.cr, c.a[1])]
      [] c.fn = "cairo_set_source_surface" -> [g EXCEPT !.cr.source = c.a]
      [] c.fn = "cairo_surface_flush" ->
            [g EXCEPT !.calls = Logged(g, "cairo_surface_flush", <<>>, <<>>)]
      [] c.fn = "cairo_image_surface_create_for_data" /\ c.a[1] = "frame" ->
            [g EXCEPT !.surface = 1]
      [] c.fn = "cairo_create" ->
            [g EXCEPT !.cr = cairo_create(c.a[1], c.a[2]), !.surface = g.surface + 1]
      [] c.fn = "cairo_surface_destroy" /\ c.a[1] = "frame" ->
            [g EXCEPT !.calls = Logged(g, "cairo_surface_destroy", <<>>, <<>>),
                      !.surface = g.surface - 1]
      [] c.fn = "cairo_destroy" -> Destroy(g)
      [] c.fn = "nk_clear" ->
            [g EXCEPT !.calls = Logged(g, "nk_clear", <<>>, <<>>), !.ctx = <<>>]
      [] c.fn = "fprintf" -> [g EXCEPT !.stderr = Append(g.stderr, [at |-> g.at, line |-> c.a[1]])]
      [] OTHER -> g

RECURSIVE Run(_, _)
Run(g, prog) == IF prog = <<>> THEN g ELSE Run(Exec(g, Head(prog)), Tail(prog))

---------------------------------------------------------------------------
(* The drawing primitives: each is the sequence of cairo calls it makes.   *)

nk_cairo_set_color == <<Call("cairo_set_source_rgba", <<>>)>>
SetLineWidth == <<Call("cairo_set_line_width", <<>>)>>

MoveTo(p) == Call("cairo_move_to", p)
LineTo(p) == Call("cairo_line_to", p)

nk_cairo_scissor_keep(x, y, w, h) ==
    <<Call("cairo_new_path", <<>>),
      MoveTo(<<x, y>>), LineTo(<<x + w, y>>), LineTo(<<x + w, y + h>>),
      LineTo(<<x, y + h>>), LineTo(<<x, y>>),
      Call("cairo_clip", <<>>)>>
nk_cairo_scissor(x, y, w, h) ==
    <<Call("cairo_reset_clip", <<>>),
      Call("cairo_new_path", <<>>),
      MoveTo(<<x, y>>), LineTo(<<x + w, y>>), LineTo(<<x + w, y + h>>),
      LineTo(<<x, y + h>>), LineTo(<<x, y>>),
      Call("cairo_clip", <<>>)>>

nk_cairo_stroke_line(x0, y0, x1, y1) ==
    nk_cairo_set_color \o SetLineWidth \o
    <<MoveTo(<<x0, y0>>), LineTo(<<x1, y1>>), Call("cairo_stroke", <<>>)>>

\* for (i = 1; i < count; i++) cairo_line_to(cairo, pnts[i].x, pnts[i].y);
LinesTo(pnts, count) == [i \in 1 .. count - 1 |-> LineTo(pnts[i + 1])]

nk_cairo_stroke_polygon(pnts, count) ==
    nk_cairo_set_color \o SetLineWidth \o
    <<Call("cairo_new_sub_path", <<>>), MoveTo(pnts[1])>> \o LinesTo(pnts, count) \o
    <<LineTo(pnts[1]), Call("cairo_close_path", <<>>), Call("cairo_stroke", <<>>)>>

nk_cairo_fill_polygon(pnts, count) ==
    nk_cairo_set_color \o
    <<Call("cairo_new_sub_path", <<>>), MoveTo(pnts[1])>> \o LinesTo(pnts, count) \o
    <<LineTo(pnts[1]), Call("cairo_close_path", <<>>), Call("cairo_fill", <<>>)>>

nk_cairo_stroke_arc(x, y, r, a0, a1) ==
    nk_cairo_set_color \o SetLineWidth \o
    <<Call("cairo_new_sub_path", <<>>), Call("cairo_arc", <<x, y, r, a0, a1>>),
      Call("cairo_close_path", <<>>), Call("cairo_stroke", <<>>)>>

nk_cairo_fill_arc(x, y, r, a0, a1) ==
    nk_cairo_set_color \o
    <<Call("cairo_new_sub_path", <<>>), Call("cairo_arc", <<x, y, r, a0, a1>>),
      Call("cairo_close_path", <<>>), Call("cairo_fill", <<>>)>>

\* 0 to 2*NK_PI
nk_cairo_fill_circle(x, y, r) ==
    nk_cairo_set_color \o
    <<Call("cairo_new_sub_path", <<>>), Call("cairo_arc", <<x, y, r, 0, 360>>),
      Call("cairo_close_path", <<>>), Call("cairo_fill", <<>>)>>

nk_cairo_stroke_circle(x, y, r) ==
    nk_cairo_set_color \o SetLineWidth \o
    <<Call("cairo_new_sub_path", <<>>), Call("cairo_arc", <<x, y, r, 0, 360>>),
      Call("cairo_close_path", <<>>), Call("cairo_stroke", <<>>)>>

\* The path of a rectangle with int r: cairo_rectangle, or the four arcs.
RectPath(x, y, w, h, r) ==
    IF r = 0 THEN <<Call("cairo_rectangle", <<x, y, w, h>>)>>
    ELSE <<Call("cairo_new_sub_path", <<>>),
           Call("cairo_arc", <<x + w - r, y + r, r, 0 - 90, 0>>),
           Call("cairo_arc", <<x + w - r, y + h - r, r, 0, 90>>),
           Call("cairo_arc", <<x + r, y + h - r, r, 90, 180>>),
           Call("cairo_arc", <<x + r, y + r, r, 180, 270>>),
           Call("cairo_close_path", <<>>)>>

nk_cairo_stroke_rect(x, y, w, h, r) ==
    nk_cairo_set_color \o SetLineWidth \o RectPath(x, y, w, h, r) \o
    <<Call("cairo_stroke", <<>>)>>

nk_cairo_fill_rect_square(x, y, w, h, r) ==
    nk_cairo_set_color \o RectPath(x, y, w, h, 0) \o <<Call("cairo_fill", <<>>)>>
nk_cairo_fill_rect(x, y, w, h, r) ==
    nk_cairo_set_color \o RectPath(x, y, w, h, r) \o <<Call("cairo_fill", <<>>)>>

nk_cairo_stroke_triangle(x0, y0, x1, y1, x2, y2) ==
    nk_cairo_set_color \o SetLineWidth \o
    <<Call("cairo_new_sub_path", <<>>), MoveTo(<<x0, y0>>), LineTo(<<x1, y1>>),
      LineTo(<<x2, y2>>), LineTo(<<x0, y0>>),
      Call("cairo_close_path", <<>>), Call("cairo_stroke", <<>>)>>

nk_cairo_fill_triangle(x0, y0, x1, y1, x2, y2) ==
    nk_cairo_set_color \o
    <<Call("cairo_new_sub_path", <<>>), MoveTo(<<x0, y0>>), LineTo(<<x1, y1>>),
      LineTo(<<x2, y2>>), LineTo(<<x0, y0>>),
      Call("cairo_close_path", <<>>), Call("cairo_fill", <<>>)>>

nk_cairo_stroke_polyline(pnts, count) ==
    nk_cairo_set_color \o SetLineWidth \o
    <<Call("cairo_new_sub_path", <<>>), MoveTo(pnts[1])>> \o LinesTo(pnts, count) \o
    <<Call("cairo_close_path", <<>>), Call("cairo_stroke", <<>>)>>

\* xs = w / img->w and ys = h / img->h as ratios; the image is painted at
\* (x / xs, y / ys) under the scaled matrix, and the matrix is put back.
nk_cairo_drawimage(cr, x, y, w, h, img) ==
    <<Call("cairo_get_matrix", <<>>),
      Call("cairo_scale", <<<<w, img.w>>, <<h, img.h>>>>),
      Call("cairo_image_surface_create_for_data", <<"image">>),
      Call("cairo_set_source_surface", <<<<x * img.w, w>>, <<y * img.h, h>>>>),
      Call("cairo_paint", <<>>),
      Call("cairo_surface_destroy", <<"image">>),
      Call("cairo_set_matrix", <<cr.matrix>>)>>

\* The font's face and size are selected on the frame's context; the first
\* len bytes of text are shown with the baseline at rect.y + ascent.
nk_cairo_draw_text(cr, font, rect, text, len) ==
    LET cfont == nk_cairo_fonts[font]
        ca == nk_cairo_faces[cfont.face].ca
        ascent == cairo_font_extents_ascent(
                      cairo_set_font_size(cairo_set_font_face(cr, ca), cfont.size))
        tmp == SubSeq(text, 1, len)
    IN  <<Call("cairo_set_font_face", <<ca>>), Call("cairo_set_font_size", <<cfont.size>>)>>
        \o nk_cairo_set_color \o
        <<MoveTo(<<rect.x, rect.y + ascent>>), Call("cairo_show_text", <<tmp>>)>>

---------------------------------------------------------------------------
(* nk_cairo_render                                                         *)

\* (int)r->rounding: the rounding whole + half/2 loses its fraction.
CastInt(rounding) == rounding.whole

\* int r = (c->w < c->h ? c->w: c->h)/2;
CircleRadius(c) == (IF c.w < c.h THEN c.w ELSE c.h) \div 2

\* case NK_COMMAND_CURVE and case NK_COMMAND_RECT_MULTI_COLOR
CurveSilent == <<>>
CurveCalls == <<Call("fprintf", <<"NK_COMMAND_CURVE not implemented">>)>>
MultiColorCalls == <<Call("fprintf", <<"NK_COMMAND_RECT_MULTI_COLOR not implemented">>)>>

\* case NK_COMMAND_ARC and case NK_COMMAND_ARC_FILLED
ArcCalls(q) ==
    <<Call("fprintf", <<"NK_COMMAND_ARC">>)>> \o
    nk_cairo_stroke_arc(q.cx, q.cy, q.r, q.a[1], q.a[2])
ArcFilledCalls(q) ==
    <<Call("fprintf", <<"NK_COMMAND_ARC_FILLED">>)>> \o
    nk_cairo_fill_arc(q.cx, q.cy, q.r, q.a[1], q.a[2])

\* switch (cmd->type): the calls made for one command, on context cr.
Dispatch(cr, c) ==
    CASE c.type = "NK_COMMAND_NOP" -> <<>>
      [] c.type = "NK_COMMAND_SCISSOR" -> nk_cairo_scissor(c.x, c.y, c.w, c.h)
      [] c.type = "NK_COMMAND_LINE" ->
            nk_cairo_stroke_line(c.begin[1], c.begin[2], c.end[1], c.end[2])
      [] c.type = "NK_COMMAND_RECT" ->
            nk_cairo_stroke_rect(c.x, c.y, c.w, c.h, CastInt(c.rounding))
      [] c.type = "NK_COMMAND_RECT_FILLED" ->
            nk_cairo_fill_rect(c.x, c.y, c.w, c.h, CastInt(c.rounding))
      [] c.type = "NK_COMMAND_CIRCLE" ->
            nk_cairo_stroke_circle(c.x + CircleRadius(c), c.y + CircleRadius(c),
                                   CircleRadius(c))
      [] c.type = "NK_COMMAND_CIRCLE_FILLED" ->
            nk_cairo_fill_circle(c.x + CircleRadius(c), c.y + CircleRadius(c),
                                 CircleRadius(c))
      [] c.type = "NK_COMMAND_TRIANGLE" ->
            nk_cairo_stroke_triangle(c.a[1], c.a[2], c.b[1], c.b[2], c.c[1], c.c[2])
      [] c.type = "NK_COMMAND_TRIANGLE_FILLED" ->
            nk_cairo_fill_triangle(c.a[1], c.a[2], c.b[1], c.b[2], c.c[1], c.c[2])
      [] c.type = "NK_COMMAND_POLYGON" -> nk_cairo_stroke_polygon(c.points, c.point_count)
      [] c.type = "NK_COMMAND_POLYGON_FILLED" ->
            nk_cairo_fill_polygon(c.points, c.point_count)
      [] c.type = "NK_COMMAND_POLYLINE" -> nk_cairo_stroke_polyline(c.points, c.point_count)
      [] c.type = "NK_COMMAND_TEXT" ->
            nk_cairo_draw_text(cr, c.font, [x |-> c.x, y |-> c.y, w |-> c.w, h |-> c.h],
                               c.string, c.length)
      [] c.type = "NK_COMMAND_CURVE" -> CurveCalls
      [] c.type = "NK_COMMAND_RECT_MULTI_COLOR" -> MultiColorCalls
      [] c.type = "NK_COMMAND_IMAGE" -> nk_cairo_drawimage(cr, c.x, c.y, c.w, c.h, c.img)
      [] c.type = "NK_COMMAND_ARC" -> ArcCalls(c)
      [] c.type = "NK_COMMAND_ARC_FILLED" -> ArcFilledCalls(c)
      [] OTHER -> <<>>

\* The surface on fb, the context on it, and the scissor over the whole target.
RenderPrologue(w, h) ==
    <<Call("cairo_image_surface_create_for_data", <<"frame", w, h>>),
      Call("cairo_create", <<w, h>>)>> \o
    nk_cairo_scissor(0, 0, w, h)

\* What follows nk_foreach.
RenderEpilogueLeaks ==
    <<Call("cairo_surface_flush", <<"frame">>),
      Call("cairo_surface_destroy", <<"frame">>),
      Call("nk_clear", <<>>)>>
RenderEpilogue ==
    <<Call("cairo_surface_flush", <<"frame">>),
      Call("cairo_surface_destroy", <<"frame">>),
      Call("cairo_destroy", <<>>),
      Call("nk_clear", <<>>)>>

G(at) == [cr |-> cairo, surface |-> surface, calls |-> calls, stderr |-> stderr,
          ctx |-> ctx, at |-> at]

Into(g) ==
    /\ cairo' = g.cr
    /\ surface' = g.surface
    /\ calls' = g.calls
    /\ stderr' = g.stderr
    /\ ctx' = g.ctx

\* nk_cairo_render(ctx, fb, w, h, pitch), up to nk_foreach
RenderBegin(w, h) ==
    /\ ~aborted
    /\ pc = "idle"
    /\ Into(Run(G(0), RenderPrologue(w, h)))
    /\ fb' = <<w, h>>
    /\ pc' = "foreach"
    /\ cmd' = 1
    /\ UNCHANGED <<fontVars, nk_cairo, aborted, ret, width, handleOf>>

\* one turn of nk_foreach(cmd, ctx)
RenderStep ==
    /\ pc = "foreach"
    /\ cmd <= Len(ctx)
    /\ Into(Run(G(cmd), Dispatch(cairo, ctx[cmd])))
    /\ cmd' = cmd + 1
    /\ UNCHANGED <<fontVars, nk_cairo, aborted, ret, width, handleOf, pc, fb>>

\* nk_cairo_render after nk_foreach, to its return
RenderEnd ==
    /\ pc = "foreach"
    /\ cmd > Len(ctx)
    /\ Into(Run(G(cmd), RenderEpilogue))
    /\ pc' = "returned"
    /\ UNCHANGED <<fontVars, nk_cairo, aborted, ret, width, handleOf, cmd, fb>>

---------------------------------------------------------------------------
(* The toolkit: between render calls it builds the next command list.      *)

\* The lists it builds here have at most n commands out of C.
Toolkit(C, n) ==
    /\ ~aborted
    /\ pc = "idle"
    /\ ctx = <<>>
    /\ \E list \in SeqsUpTo(C, n) : ctx' = list
    /\ UNCHANGED <<fontVars, nk_cairo, aborted, ret, width, handleOf,
                   pc, cmd, fb, surface, cairo, calls, stderr>>

\* The host goes on to its next frame; the record of the render call's calls
\* and lines, kept per frame, starts again.
NextFrame ==
    /\ pc = "returned"
    /\ pc' = "idle"
    /\ cmd' = 0
    /\ calls' = <<>>
    /\ stderr' = <<>>
    /\ UNCHANGED <<fontVars, nk_cairo, aborted, ret, width, handleOf,
                   ctx, fb, surface, cairo>>

Cmd(type) == [type |-> type]

ScissorA == [type |-> "NK_COMMAND_SCISSOR", x |-> 1, y |-> 1, w |-> 2, h |-> 2]
ScissorB == [type |-> "NK_COMMAND_SCISSOR", x |-> 0, y |-> 0, w |-> 2, h |-> 3]

Roundings == {[whole |-> n, half |-> b] : n \in 0 .. 1, b \in BOOLEAN}
RectCommands ==
    {[type |-> t, x |-> 0, y |-> 1, w |-> 4, h |-> 3, rounding |-> r] :
        t \in {"NK_COMMAND_RECT", "NK_COMMAND_RECT_FILLED"}, r \in Roundings}

Points3 == <<<<0, 0>>, <<3, 1>>, <<1, 2>>>>
PointCommands ==
    {[type |-> t, points |-> Points3, point_count |-> 3] :
        t \in {"NK_COMMAND_POLYGON", "NK_COMMAND_POLYGON_FILLED", "NK_COMMAND_POLYLINE"}}
    \cup
    {[type |-> t, a |-> <<0, 0>>, b |-> <<3, 1>>, c |-> <<1, 2>>] :
        t \in {"NK_COMMAND_TRIANGLE", "NK_COMMAND_TRIANGLE_FILLED"}}

RoundCommands ==
    {[type |-> t, x |-> 1, y |-> 0, w |-> 3, h |-> 2] :
        t \in {"NK_COMMAND_CIRCLE", "NK_COMMAND_CIRCLE_FILLED"}}
    \cup
    {[type |-> t, cx |-> 2, cy |-> 1, r |-> 1, a |-> <<0, 90>>] :
        t \in {"NK_COMMAND_ARC", "NK_COMMAND_ARC_FILLED"}}

LineCommand == [type |-> "NK_COMMAND_LINE", begin |-> <<0, 0>>, end |-> <<3, 2>>]
ImageCommand ==
    [type |-> "NK_COMMAND_IMAGE", x |-> 1, y |-> 1, w |-> 2, h |-> 2,
     img |-> [w |-> 4, h |-> 1]]

\* A text command carries a font the toolkit was given by nk_cairo_ttf.
TextCommands ==
    {[type |-> "NK_COMMAND_TEXT", font |-> f, x |-> 1, y |-> 0, w |-> 3, h |-> 1,
      string |-> <<1, 2>>, length |-> 1] : f \in Handles}

UnsupportedTypes == {"NK_COMMAND_CURVE", "NK_COMMAND_RECT_MULTI_COLOR"}

Commands ==
    {Cmd("NK_COMMAND_NOP"), Cmd("NK_COMMAND_CUSTOM"), ScissorA, ScissorB, LineCommand,
     ImageCommand}
    \cup {Cmd(t) : t \in UnsupportedTypes}
    \cup RectCommands \cup PointCommands \cup RoundCommands \cup TextCommands

---------------------------------------------------------------------------
(* The specifications.                                                     *)

\* The targets rendered to.
FrameSizes == {<<4, 3>>, <<2, 2>>}

\* Command lists have at most MaxCmds commands.
MaxCmds == 2

\* The renderer over every kind of command, with at most one font loaded.
Next ==
    \/ nk_cairo_ttf(1, 1)
    \/ Toolkit(Commands, MaxCmds)
    \/ \E s \in FrameSizes : RenderBegin(s[1], s[2])
    \/ RenderStep
    \/ RenderEnd
    \/ NextFrame

Spec == Init /\ [][Next]_vars

\* The renderer over longer lists of scissor commands and commands that draw.
MaxClipCmds == 3

ClipCommands ==
    {ScissorA, ScissorB, ImageCommand, LineCommand,
     [type |-> "NK_COMMAND_RECT_FILLED", x |-> 0, y |-> 1, w |-> 4, h |-> 3,
      rounding |-> [whole |-> 0, half |-> FALSE]]}

NextClip ==
    \/ Toolkit(ClipCommands, MaxClipCmds)
    \/ \E s \in FrameSizes : RenderBegin(s[1], s[2])
    \/ RenderStep
    \/ RenderEnd
    \/ NextFrame

SpecClip == Init /\ [][NextClip]_vars

\* The width callback among font loading and rendering.  The callback is the
\* toolkit's to call: it is let run at any point, also between two commands
\* of a render call.
MeasureRequests == {<<1, 1>>, <<1, 2>>, <<2, 1>>}
MeasureCommands == TextCommands \cup {ScissorA}

NextMeasure ==
    \/ \E r \in MeasureRequests : nk_cairo_ttf(r[1], r[2])
    \/ \E h \in Handles, text \in Texts :
           \E len \in 0 .. Len(text) : nk_cairo_text_width(h, text, len)
    \/ Toolkit(MeasureCommands, 1)
    \/ RenderBegin(4, 3)
    \/ RenderStep
    \/ RenderEnd
    \/ NextFrame

SpecMeasure == Init /\ [][NextMeasure]_vars

---------------------------------------------------------------------------
(* The font cache (SpecFonts).                                             *)

\* C1: a call nk_cairo_ttf(p, s) for a path and size that an earlier call
\* has returned a handle for returns that same handle, whatever calls came in
\* between, and changes neither table nor counter.
C1_SameHandle ==
    [][\A r \in CacheRequests :
          (handleOf[r] # NoHandle /\ nk_cairo_ttf(r[1], r[2]))
              => /\ ret' = handleOf[r]
                 /\ ~aborted'
                 /\ UNCHANGED fontVars]_vars

\* A repeated request has returned the first handle after two other fonts
\* were created in between.
C1_Witness ==
    /\ ~aborted
    /\ nk_cairo_font >= 3
    /\ ret = 0
    /\ handleOf[<<1, 1>>] = 0

\* C2, as claimed: in every reachable state both counters are at most MAXFONTS.
C2_Original == nk_cairo_face <= MAXFONTS /\ nk_cairo_font <= MAXFONTS

\* C2, amended: while the process runs both counters are at most MAXFONTS and
\* count the entries written; the call whose assertion fails has already
\* raised its counter, to MAXFONTS + 1 at most, and written no entry for it.
C2_CountersWhileRunning ==
    /\ ~aborted => nk_cairo_face <= MAXFONTS /\ nk_cairo_font <= MAXFONTS
    /\ nk_cairo_face <= MAXFONTS + 1 /\ nk_cairo_font <= MAXFONTS + 1
    /\ \A i \in Slots :
          /\ (~aborted /\ i < nk_cairo_face) => nk_cairo_faces[i] # EmptyFace
          /\ (~aborted /\ i < nk_cairo_font) => nk_cairo_fonts[i] # EmptyFont
          /\ i >= nk_cairo_face => nk_cairo_faces[i] = EmptyFace
          /\ i >= nk_cairo_font => nk_cairo_fonts[i] = EmptyFont

\* A call for a 17th sized font has died with both tables full.
C2_Witness ==
    /\ aborted
    /\ nk_cairo_font = MAXFONTS + 1
    /\ nk_cairo_face = MAXFONTS
    /\ \A i \in Slots : nk_cairo_fonts[i] # EmptyFont

\* What a call asks for, told from what earlier calls returned.
NeedsFace(ttf) == \A s \in 1 .. NSizes : handleOf[<<ttf, s>>] = NoHandle
NeedsFont(r) == handleOf[r] = NoHandle

Overflows(r) ==
    \/ NeedsFace(r[1]) /\ nk_cairo_face = MAXFONTS
    \/ NeedsFont(r) /\ nk_cairo_font = MAXFONTS
    \/ FT_New_Face(r[1]) # 0

\* C3: a call that needs a 17th face or a 17th sized font, or whose file
\* cannot be loaded, ends the process and returns nothing; no call returns a
\* handle outside the entries in use, and no call changes an entry in use.
C3_FatalOverflow ==
    [][\A r \in CacheRequests :
          nk_cairo_ttf(r[1], r[2])
              => /\ Overflows(r) => aborted' /\ ret' = NoHandle
                 /\ ret' # NoHandle => ret' \in Slots /\ ret' < nk_cairo_font'
                 /\ \A i \in Slots :
                       /\ i < nk_cairo_face => nk_cairo_faces'[i] = nk_cairo_faces[i]
                       /\ i < nk_cairo_font => nk_cairo_fonts'[i] = nk_cairo_fonts[i]]_vars

\* A call for a 17th face has died.
C3_Witness ==
    /\ aborted
    /\ ret = NoHandle
    /\ nk_cairo_face = MAXFONTS + 1

---------------------------------------------------------------------------
(* The width callback (SpecMeasure).                                       *)

\* The width of the len bytes at text in the font that handle was returned
\* for: a function of the handle and the text alone.
RequestOf(handle) == CHOOSE r \in FontRequestsAll : handleOf[r] = handle
WidthOf(handle, text, len) ==
    LET r == RequestOf(handle)
    IN  TextWidthOn([font_face |-> cairo_ft_font_face_create_for_ft_face(FT_FaceOf(r[1])),
                     font_size |-> r[2]], text, len)

\* C8: the callback returns, for a handle and a text, the same width at any
\* point among nk_cairo_ttf, callback and render steps, and leaves the two
\* tables, their counters and the render call's context and surface as they
\* were.
C8_TextWidthStable ==
    [][\A h \in Handles, text \in Texts : \A len \in 0 .. Len(text) :
          nk_cairo_text_width(h, text, len)
              => /\ width' = WidthOf(h, text, len)
                 /\ UNCHANGED fontVars
                 /\ UNCHANGED <<cairo, surface, ctx, calls, pc, cmd>>]_vars

\* Handle 0 was measured after the scratch context had been left on another
\* font, while a render call held its context with the font of handle 1.
C8_Witness ==
    /\ nk_cairo_font >= 2
    /\ nk_cairo_fonts[1].size # nk_cairo_fonts[0].size
    /\ nk_cairo.font_size = nk_cairo_fonts[0].size
    /\ nk_cairo.font_face = nk_cairo_faces[nk_cairo_fonts[0].face].ca
    /\ width = WidthOf(0, <<1, 2>>, 2)
    /\ pc = "foreach"
    /\ cairo.font_size = nk_cairo_fonts[1].size

---------------------------------------------------------------------------
(* The renderer (Spec, SpecClip).                                          *)

PathFns == {"cairo_stroke", "cairo_fill"}
DrawFns == PathFns \cup {"cairo_paint", "cairo_show_text"}
ReleaseFns == {"cairo_surface_flush", "cairo_surface_destroy", "cairo_destroy", "nk_clear"}

\* The logged calls that drew, and those that drew a path.
Draws == {i \in 1 .. Len(calls) : calls[i].fn \in DrawFns}
PathDraws == {i \in 1 .. Len(calls) : calls[i].fn \in PathFns}

\* C4: a render call that has returned has flushed the surface, then dropped
\* the surface, then the context, then cleared the command list, each once,
\* after everything else; no context or surface of the frame is left and the
\* command list is empty.
C4_RenderEnds ==
    pc = "returned" =>
        LET n == Len(calls)
        IN  /\ n >= 4
            /\ <<calls[n - 3].fn, calls[n - 2].fn, calls[n - 1].fn, calls[n].fn>>
                 = <<"cairo_surface_flush", "cairo_surface_destroy", "cairo_destroy",
                     "nk_clear">>
            /\ \A i \in 1 .. n - 4 : calls[i].fn \notin ReleaseFns
            /\ cairo = NoContext
            /\ surface = 0
            /\ ctx = <<>>

\* A render call has returned whose list held an unsupported command and a
\* command that drew.
C4_Witness ==
    /\ pc = "returned"
    /\ stderr # <<>>
    /\ stderr[1].line = "NK_COMMAND_RECT_MULTI_COLOR not implemented"
    /\ Draws # {}

\* The pixels of the target inside the rectangle of scissor command c.
RectPixels(c) ==
    {px \in Pixels(fb[1], fb[2]) : /\ c.x <= px[1] /\ px[1] + 1 <= c.x + c.w
                                   /\ c.y <= px[2] /\ px[2] + 1 <= c.y + c.h}

\* The clip the k-th command is to be drawn under: the rectangle of the last
\* scissor command before it, the whole target if there is none.
ScissorsBefore(k) == {j \in 1 .. k - 1 : ctx[j].type = "NK_COMMAND_SCISSOR"}
ClipAt(k) ==
    IF ScissorsBefore(k) = {} THEN Pixels(fb[1], fb[2])
    ELSE RectPixels(ctx[0 - MinOf({0 - j : j \in ScissorsBefore(k)})])

\* C5: in a render call the clip in force at each command, and the clip each
\* drawing call was made under, is the rectangle of the most recent scissor
\* command before it alone, and the whole target when there is none (so also
\* at the first command of every render call).
C5_ClipInForce ==
    pc = "foreach" =>
        /\ cairo.clip = ClipAt(cmd)
        /\ \A i \in Draws : calls[i].clip = ClipAt(calls[i].at)

\* A filled rectangle has been drawn after two scissor commands of which
\* neither rectangle holds the other.
C5_Witness ==
    /\ pc = "foreach"
    /\ fb = <<4, 3>>
    /\ Len(ctx) = 3
    /\ ctx[1] = ScissorA
    /\ ctx[2] = ScissorB
    /\ cmd = 4
    /\ \E i \in Draws : calls[i].fn = "cairo_fill" /\ calls[i].at = 3

\* C6: the step of nk_foreach at a curve or multi-colour rectangle makes no
\* drawing call, leaves the context alone and writes one line; nk_foreach
\* goes from each command to the next and ends only past the last one.
C6_UnsupportedSkipped ==
    [][/\ (RenderStep /\ ctx[cmd].type \in UnsupportedTypes)
            => /\ calls' = calls
               /\ cairo' = cairo
               /\ Len(stderr') = Len(stderr) + 1
               /\ stderr'[Len(stderr')].at = cmd
       /\ (pc = "foreach" /\ pc' = "foreach") => cmd' = cmd + 1 /\ ctx' = ctx
       /\ (pc = "foreach" /\ pc' # "foreach") => cmd = Len(ctx) + 1]_vars

\* After a curve command wrote its line, the filled rectangle behind it was
\* dispatched and drew.
C6_Witness ==
    /\ pc = "foreach"
    /\ Len(ctx) = 2
    /\ cmd = 3
    /\ ctx[1].type = "NK_COMMAND_CURVE"
    /\ ctx[2].type = "NK_COMMAND_RECT_FILLED"
    /\ Len(stderr) = 1
    /\ \E i \in Draws : calls[i].fn = "cairo_fill" /\ calls[i].at = 2

\* C7, as claimed: every line written to stderr during a render call was
\* written for a curve or a multi-colour rectangle.
C7_Original ==
    pc = "foreach" =>
        \A i \in 1 .. Len(stderr) : ctx[stderr[i].at].type \in UnsupportedTypes

ClosingTypes ==
    {"NK_COMMAND_TRIANGLE", "NK_COMMAND_TRIANGLE_FILLED", "NK_COMMAND_POLYGON",
     "NK_COMMAND_POLYGON_FILLED"}

Closed(path) == path # <<>> /\ \A k \in 1 .. Len(path) : path[k].closed

\* The points of a polyline as an open path.
OpenPath(pnts) ==
    <<[segs |-> <<Move(pnts[1])>> \o [k \in 1 .. Len(pnts) - 1 |-> Line(pnts[k + 1])],
       closed |-> FALSE]>>

\* C9, as claimed: the path stroked or filled for a triangle or polygon is
\* closed back to its first point; the path stroked for a polyline is its
\* points in order, not closed.
C9_Original ==
    pc = "foreach" =>
        \A i \in PathDraws :
            LET c == ctx[calls[i].at]
            IN  /\ c.type \in ClosingTypes => Closed(calls[i].path)
                /\ c.type = "NK_COMMAND_POLYLINE" => calls[i].path = OpenPath(c.points)

RectTypes == {"NK_COMMAND_RECT", "NK_COMMAND_RECT_FILLED"}

\* The plain rectangle (r = 0), or the four quarter circles of radius r at the
\* corners joined by straight edges, closed.
RoundedPath(x, y, w, h, r) ==
    IF r = 0
    THEN <<[segs |-> <<Move(<<x, y>>), Line(<<x + w, y>>), Line(<<x + w, y + h>>),
                       Line(<<x, y + h>>)>>,
            closed |-> TRUE]>>
    ELSE <<[segs |-> <<Move(<<x + w - r, y>>),
                       Arc(<<x + w - r, y + r>>, r, 0 - 90, 0),
                       Line(<<x + w, y + h - r>>),
                       Arc(<<x + w - r, y + h - r>>, r, 0, 90),
                       Line(<<x + r, y + h>>),
                       Arc(<<x + r, y + h - r>>, r, 90, 180),
                       Line(<<x, y + r>>),
                       Arc(<<x + r, y + r>>, r, 180, 270)>>,
            closed |-> TRUE]>>

\* A path in half units.
Twice(p) == <<2 * p[1], 2 * p[2]>>
TwiceSeg(seg) ==
    IF seg.k = "arc" THEN Arc(Twice(seg.c), 2 * seg.r, seg.a1, seg.a2)
    ELSE [k |-> seg.k, p |-> Twice(seg.p)]
TwicePath(path) ==
    [i \in 1 .. Len(path) |->
        [segs |-> [k \in 1 .. Len(path[i].segs) |-> TwiceSeg(path[i].segs[k])],
         closed |-> path[i].closed]]

\* The rounding of a command in half units.
Halves(rounding) == 2 * rounding.whole + (IF rounding.half THEN 1 ELSE 0)

RectFn(c) == IF c.type = "NK_COMMAND_RECT" THEN "cairo_stroke" ELSE "cairo_fill"

=============================================================================
